---- MODULE Spec2Model ----
(***************************************************************************)
(* LeetCoach frontend (frontend/src/App.tsx, concatenated in               *)
(* src/frontend/src/LoginModal.tsx): the session workflow controller of    *)
(* the App component.  React state is the model's state, every event       *)
(* handler together with the effects its state change triggers is one      *)
(* action, and every fetch is a request in flight whose settlement is a    *)
(* later action.                                                            *)
(***************************************************************************)
EXTENDS Integers, Sequences, FiniteSets, Bags, TLC

\* ------------------------------------------------------------------ bounds
\* Seconds of the interview budget in the model (the program uses 45 * 60).
FullBudget == 2
\* Requests that may be in flight together.
MaxInFlight == 2
\* User events (clicks and edits) of one behaviour.
MaxEvents == 5

\* --------------------------------------------------------------- constants
steps == <<"Question", "Clarify", "Brute Force", "Optimize", "Code", "Review">>
Tabs == {steps[i] : i \in 1..Len(steps)}
languages == {"javascript", "python"}
QuestionIds == {1, 2}

\* JavaScript null / undefined, as values no text or object is equal to.
Null == <<"#null">>
Undefined == <<"#undefined">>
\* The id held by question / selectedQuestionId while they are null.
NoQuestion == 0

\* Texts are sequences of characters (one-character strings) or of tokens.
LoadingText == <<"// Loading function definition...">>
ValidationMessage == <<"Please provide at least one answer before submitting for review.">>
\* What the user may type into a text area.
InputTexts == {<<>>, <<" ">>, <<"a">>}
\* What the user may type into a complexity field.
ComplexityTexts == {<<>>, <<"O(n)">>}
\* What the user may leave in the editor.
CodeTexts == {<<>>, <<" ">>, <<"c">>}
\* Feedback texts the interview service may return.
FeedbackTexts == {<<"f">>}
\* Bodies of a code-review response: the review and the optional solution.
ReviewBodies == {[review |-> <<"review1">>, actual_solution |-> <<"solution1">>],
                 [review |-> <<"review2">>, actual_solution |-> Undefined],
                 [review |-> <<"review2">>, actual_solution |-> <<>>]}
\* Bodies of a run-code response: output on a 2xx, detail on a non-2xx; a
\* body may lack either.
RunBodies == {[output |-> <<"out">>, detail |-> <<"detail">>],
              [output |-> Undefined, detail |-> Undefined]}
\* The texts handleRunCode builds its error line from.
ErrorPrefix == <<"Error: ">>
FailedToRun == <<"Failed to run code">>
NetworkMessage == <<"Failed to fetch">>
\* Every text runOutput can hold.
RunOutputs == {<<>>, <<"out">>, ErrorPrefix \o <<"detail">>, ErrorPrefix \o FailedToRun,
               ErrorPrefix \o NetworkMessage}
\* What the CAPTCHA answer box of a modal can hold.
CaptchaAnswers == {<<>>, <<" ">>, <<"7">>}
\* The error lines of LoginModal and SignupModal.
CaptchaNotLoaded == <<"CAPTCHA not loaded. Please try again.">>
PleaseAnswerCaptcha == <<"Please answer the CAPTCHA question.">>
IncorrectCaptcha == <<"Incorrect CAPTCHA answer. Please try again.">>
InvalidUserOrPassword == <<"Invalid username or password.">>
UsernameExists == <<"Username or email already exists. Please choose different credentials.">>
FailedToLoadCaptcha == <<"Failed to load CAPTCHA. Please try again.">>
LoginFailed == <<"Login failed">>
SignupFailed == <<"Signup failed">>
\* The detail field of a non-2xx body of /api/login and /api/register.
InvalidCaptchaDetail == <<"Invalid CAPTCHA answer">>
InvalidCredentialsDetail == <<"Invalid credentials">>
AlreadyRegisteredDetail == <<"Username or email already registered">>
LoginDetails == {InvalidCaptchaDetail, InvalidCredentialsDetail, <<"detail">>, Undefined}
SignupDetails == {InvalidCaptchaDetail, AlreadyRegisteredDetail, <<"detail">>, Undefined}
\* The skeleton the service returns for a question and a language.
Skeleton(q, l) == <<"skeleton", ToString(q), l>>

\* How a fetch can settle: a 2xx response, a non-2xx response with a JSON
\* error body, or a rejection (network failure, or a body that is not JSON).
Outcomes == {"ok", "httpError", "rejected"}

VARIABLES
  activeTab, question, questions, selectedQuestionId,
  clarifyInput, clarifyResponse, showClarifyFeedback, clarifyLoading,
  bruteForceInput, bruteForceResponse, showBruteForceFeedback, bruteForceLoading,
  optimizeInput, optimizeResponse, showOptimizeFeedback, optimizeLoading,
  bruteForceTime, bruteForceSpace, optimizeTime, optimizeSpace,
  codeInput, language, review, actualSolution, codeReviewError,
  isLoggedIn, token, timer, timerActive, timeout, tickPending,
  runOutput, runLoading,
  showLogin, showSignup, loginModal, signupModal,
  mounted, inflight,
  events

clarifyVars == <<clarifyInput, clarifyResponse, showClarifyFeedback, clarifyLoading>>
bruteForceVars == <<bruteForceInput, bruteForceResponse, showBruteForceFeedback, bruteForceLoading>>
optimizeVars == <<optimizeInput, optimizeResponse, showOptimizeFeedback, optimizeLoading>>
complexityVars == <<bruteForceTime, bruteForceSpace, optimizeTime, optimizeSpace>>
timerVars == <<timer, timerActive, timeout, tickPending>>
reviewVars == <<review, actualSolution, codeReviewError>>
questionVars == <<question, questions, selectedQuestionId>>
\* isLoggedIn, and whether localStorage holds a token.
loginVars == <<isLoggedIn, token>>
runVars == <<runOutput, runLoading>>
\* showLogin, showSignup and the state of the LoginModal and SignupModal
\* components (captchaData, captchaAnswer, error, loading, success).
modalVars == <<showLogin, showSignup, loginModal, signupModal>>
vars == <<activeTab, questionVars, clarifyVars, bruteForceVars, optimizeVars,
          complexityVars, codeInput, language, reviewVars, loginVars,
          timerVars, runVars, modalVars, mounted, inflight, events>>

\* ----------------------------------------------------------- pure helpers
\* String.prototype.trim: drops leading and trailing white space.
RECURSIVE TrimStart(_)
TrimStart(s) == IF s # <<>> /\ Head(s) = " " THEN TrimStart(Tail(s)) ELSE s
RECURSIVE TrimEnd(_)
TrimEnd(s) == IF s # <<>> /\ s[Len(s)] = " " THEN TrimEnd(SubSeq(s, 1, Len(s) - 1)) ELSE s
Trim(s) == TrimEnd(TrimStart(s))

\* JavaScript truthiness of a text, null or undefined.
Truthy(v) == v # <<>> /\ v # Null /\ v # Undefined

\* a || b
OrElse(a, b) == IF Truthy(a) THEN a ELSE b

\* ---------------------------------------------------------------- requests
\* A fetch in flight.  stale is set by handleRestart on the requests that
\* were dispatched before it (history only: the program keeps no such mark).
Request(kind, qid, lang) ==
  [kind |-> kind, qid |-> qid, lang |-> lang, auth |-> FALSE, stale |-> FALSE]
\* getAuthHeaders: an Authorization header exactly when a token is stored.
getAuthHeaders == token
\* The request r with the headers of getAuthHeaders assigned to it.
Authorized(r) == [r EXCEPT !.auth = getAuthHeaders]
Dispatch(B, r) == B (+) SetToBag({r})
Settled(B, r) == B (-) SetToBag({r})
CanDispatch == BagCardinality(inflight) < MaxInFlight
InFlight(kind) == {r \in BagToSet(inflight) : r.kind = kind}
\* Number of requests of a kind in the bag B.
InFlightCount(kind, B) ==
  BagCardinality([r \in {x \in BagToSet(B) : x.kind = kind} |-> CopiesIn(r, B)])
MarkStale(B) ==
  LET S == {[r EXCEPT !.stale = TRUE] : r \in BagToSet(B)}
  IN [r \in S |-> CopiesIn(r, B) + CopiesIn([r EXCEPT !.stale = FALSE], B)]

\* ------------------------------------------------------------ what renders
\* The question list is rendered (logged in, no question assigned).
ListView == isLoggedIn /\ question = NoQuestion
\* The interview workspace is rendered (logged in, a question assigned).
SessionView == isLoggedIn /\ question # NoQuestion

\* ------------------------------------------------------------- timer effect
\* The effect on [timer, timerActive, timeout], run to quiescence for the
\* values t, a, to that a handler has just set; pending is the number of
\* timeouts scheduled at that moment.  When a dependency changed, the cleanup
\* of the previous run clears the timeout it scheduled, then the effect runs.
\* The effect with the expiry test t < 0 in place of t <= 0.
TimerEffectLateExpiry(t, a, to, pending) ==
  LET cleared == IF pending > 0 THEN pending - 1 ELSE 0
  IN IF <<t, a, to>> = <<timer, timerActive, timeout>>
     THEN [timerActive |-> a, timeout |-> to, tickPending |-> pending]
     ELSE IF ~a \/ to
     THEN [timerActive |-> a, timeout |-> to, tickPending |-> cleared]
     ELSE IF t < 0
     THEN [timerActive |-> FALSE, timeout |-> TRUE, tickPending |-> cleared]
     ELSE [timerActive |-> a, timeout |-> to, tickPending |-> cleared + 1]

\* The effect scheduling its timeout without clearing the one before.
TimerEffectDuplicateTimers(t, a, to, pending) ==
  IF <<t, a, to>> = <<timer, timerActive, timeout>>
  THEN [timerActive |-> a, timeout |-> to, tickPending |-> pending]
  ELSE IF ~a \/ to
  THEN [timerActive |-> a, timeout |-> to, tickPending |-> pending]
  ELSE IF t <= 0
  THEN [timerActive |-> FALSE, timeout |-> TRUE, tickPending |-> pending]
  ELSE [timerActive |-> a, timeout |-> to, tickPending |-> pending + 1]

\* The effect without its cleanup: a scheduled timeout is never cleared.
TimerEffectNoCleanup(t, a, to, pending) ==
  IF <<t, a, to>> = <<timer, timerActive, timeout>>
  THEN [timerActive |-> a, timeout |-> to, tickPending |-> pending]
  ELSE IF ~a \/ to
  THEN [timerActive |-> a, timeout |-> to, tickPending |-> pending]
  ELSE IF t <= 0
  THEN [timerActive |-> FALSE, timeout |-> TRUE, tickPending |-> pending]
  ELSE [timerActive |-> a, timeout |-> to, tickPending |-> 1]

TimerEffect(t, a, to, pending) ==
  LET cleared == IF pending > 0 THEN pending - 1 ELSE 0
  IN IF <<t, a, to>> = <<timer, timerActive, timeout>>
     THEN [timerActive |-> a, timeout |-> to, tickPending |-> pending]
     ELSE IF ~a \/ to
     THEN [timerActive |-> a, timeout |-> to, tickPending |-> cleared]
     ELSE IF t <= 0
     THEN [timerActive |-> FALSE, timeout |-> TRUE, tickPending |-> cleared]
     ELSE [timerActive |-> a, timeout |-> to, tickPending |-> cleared + 1]

SetTimer(t, a, to, pending) ==
  /\ timer' = t
  /\ timerActive' = TimerEffect(t, a, to, pending).timerActive
  /\ timeout' = TimerEffect(t, a, to, pending).timeout
  /\ tickPending' = TimerEffect(t, a, to, pending).tickPending

\* -------------------------------------------------------------------- Init
Init ==
  /\ activeTab = "Question"
  /\ question = NoQuestion
  /\ questions = {}
  /\ selectedQuestionId = NoQuestion
  /\ clarifyInput = <<>> /\ clarifyResponse = <<>>
  /\ showClarifyFeedback = FALSE /\ clarifyLoading = FALSE
  /\ bruteForceInput = <<>> /\ bruteForceResponse = <<>>
  /\ showBruteForceFeedback = FALSE /\ bruteForceLoading = FALSE
  /\ optimizeInput = <<>> /\ optimizeResponse = <<>>
  /\ showOptimizeFeedback = FALSE /\ optimizeLoading = FALSE
  /\ bruteForceTime = <<>> /\ bruteForceSpace = <<>>
  /\ optimizeTime = <<>> /\ optimizeSpace = <<>>
  /\ codeInput = <<>>
  /\ language = "javascript"
  /\ review = Null /\ actualSolution = Null /\ codeReviewError = <<>>
  /\ token \in BOOLEAN
  /\ isLoggedIn = token
  /\ runOutput = <<>> /\ runLoading = FALSE
  /\ showLogin = FALSE /\ showSignup = FALSE
  /\ loginModal = [captchaData |-> FALSE, captchaAnswer |-> <<>>, error |-> <<>>,
                   loading |-> FALSE]
  /\ signupModal = [captchaData |-> FALSE, captchaAnswer |-> <<>>, error |-> <<>>,
                    loading |-> FALSE, success |-> FALSE, closePending |-> 0]
  /\ timer = FullBudget /\ timerActive = FALSE /\ timeout = FALSE
  /\ tickPending = 0
  /\ mounted = TRUE
  /\ inflight = IF isLoggedIn THEN SetToBag({Request("questions", NoQuestion, "")})
                ELSE EmptyBag
  /\ events = 0

\* ------------------------------------------------------------------ events
\* Nothing is handled once the component tree is unmounted.  events counts
\* the user's events (clicks and edits) of the behaviour, up to MaxEvents.
Event ==
  /\ mounted
  /\ events < MaxEvents
  /\ events' = events + 1

\* A timeout or a promise continuation runs: not a user event.
Callback ==
  /\ mounted
  /\ UNCHANGED events

\* ---------------------------------------------------- login state and list
handleLoginSuccess ==
  /\ Event
  /\ ~isLoggedIn
  /\ CanDispatch
  /\ token' = TRUE
  /\ isLoggedIn' = TRUE
  /\ showLogin' = FALSE
  /\ inflight' = Dispatch(inflight, Request("questions", NoQuestion, ""))
  /\ UNCHANGED <<activeTab, questionVars, clarifyVars, bruteForceVars, optimizeVars,
                 complexityVars, codeInput, language, reviewVars, timerVars, mounted, runVars,
                 showSignup, loginModal, signupModal>>

handleLogout ==
  /\ Event
  /\ isLoggedIn
  /\ token' = FALSE
  /\ isLoggedIn' = FALSE
  /\ questions' = {}
  /\ question' = NoQuestion
  /\ selectedQuestionId' = NoQuestion
  /\ UNCHANGED <<activeTab, clarifyVars, bruteForceVars, optimizeVars, complexityVars,
                 codeInput, language, reviewVars, timerVars, mounted, inflight, runVars, modalVars>>

\* GET /api/questions settles.  A non-2xx JSON body is stored as the list and
\* the next render throws on spreading it: the component tree is unmounted.
QuestionsSettle(r, outcome) ==
  /\ Callback
  /\ r \in InFlight("questions")
  /\ inflight' = Settled(inflight, r)
  /\ CASE outcome = "ok" -> questions' = QuestionIds /\ mounted' = mounted
       [] outcome = "httpError" -> questions' = questions /\ mounted' = FALSE
       [] OTHER -> UNCHANGED <<questions, mounted>>
  /\ UNCHANGED <<activeTab, question, selectedQuestionId, clarifyVars, bruteForceVars,
                 optimizeVars, complexityVars, codeInput, language, reviewVars,
                 loginVars, timerVars, runVars, modalVars>>

\* A question card is clicked; the effect on [selectedQuestionId] posts
\* /api/start-session when the id changed.
SelectQuestion(q) ==
  /\ Event
  /\ ListView
  /\ q \in questions
  /\ q # selectedQuestionId
  /\ CanDispatch
  /\ selectedQuestionId' = q
  /\ inflight' = Dispatch(inflight, Request("start-session", q, ""))
  /\ UNCHANGED <<activeTab, question, questions, clarifyVars, bruteForceVars,
                 optimizeVars, complexityVars, codeInput, language, reviewVars,
                 loginVars, timerVars, mounted, runVars, modalVars>>

\* The settlement without the res.ok test: any parsed body is assigned.
StartSessionSettleNoOkTest(r, outcome) ==
  /\ Callback
  /\ r \in InFlight("start-session")
  /\ IF outcome # "rejected"
     THEN /\ question' = r.qid
          /\ codeInput' = LoadingText
          /\ inflight' = Dispatch(Settled(inflight, r),
                                  Request("function-definition", r.qid, language))
     ELSE /\ inflight' = Settled(inflight, r)
          /\ UNCHANGED <<question, codeInput>>
  /\ UNCHANGED <<activeTab, questions, selectedQuestionId, clarifyVars, bruteForceVars,
                 optimizeVars, complexityVars, language, reviewVars, loginVars,
                 timerVars, mounted, runVars, modalVars>>

\* /api/start-session settles; on success the effect on [question, language]
\* shows the loading text and posts /api/function-definition.
StartSessionSettle(r, outcome) ==
  /\ Callback
  /\ r \in InFlight("start-session")
  /\ IF outcome = "ok"
     THEN /\ question' = r.qid
          /\ codeInput' = LoadingText
          /\ inflight' = Dispatch(Settled(inflight, r),
                                  Request("function-definition", r.qid, language))
     ELSE /\ inflight' = Settled(inflight, r)
          /\ UNCHANGED <<question, codeInput>>
  /\ UNCHANGED <<activeTab, questions, selectedQuestionId, clarifyVars, bruteForceVars,
                 optimizeVars, complexityVars, language, reviewVars, loginVars,
                 timerVars, mounted, runVars, modalVars>>

FunctionDefinitionSettle(r, outcome) ==
  /\ Callback
  /\ r \in InFlight("function-definition")
  /\ inflight' = Settled(inflight, r)
  /\ CASE outcome = "ok" -> codeInput' = Skeleton(r.qid, r.lang)
       [] outcome = "httpError" -> codeInput' = Undefined
       [] OTHER -> UNCHANGED codeInput
  /\ UNCHANGED <<activeTab, questionVars, clarifyVars, bruteForceVars, optimizeVars,
                 complexityVars, language, reviewVars, loginVars, timerVars, mounted, runVars, modalVars>>

\* The language select with the request built from the language of the
\* previous render.
SetLanguageStaleLanguage(l) ==
  /\ Event
  /\ SessionView /\ activeTab = "Code"
  /\ l \in languages /\ l # language
  /\ CanDispatch
  /\ language' = l
  /\ codeInput' = LoadingText
  /\ inflight' = Dispatch(inflight, Request("function-definition", question, language))
  /\ UNCHANGED <<activeTab, questionVars, clarifyVars, bruteForceVars, optimizeVars,
                 complexityVars, reviewVars, loginVars, timerVars, mounted, runVars, modalVars>>

\* The language select of the Code tab.
SetLanguage(l) ==
  /\ Event
  /\ SessionView /\ activeTab = "Code"
  /\ l \in languages /\ l # language
  /\ CanDispatch
  /\ language' = l
  /\ codeInput' = LoadingText
  /\ inflight' = Dispatch(inflight, Request("function-definition", question, l))
  /\ UNCHANGED <<activeTab, questionVars, clarifyVars, bruteForceVars, optimizeVars,
                 complexityVars, reviewVars, loginVars, timerVars, mounted, runVars, modalVars>>

\* ----------------------------------------------------------- stage tabs
\* The stage tabs with Review selectable only once a review exists.
SetActiveTabReviewLocked(s) ==
  /\ Event
  /\ SessionView
  /\ s \in Tabs /\ s # activeTab
  /\ s = "Review" => review # Null
  /\ activeTab' = s
  /\ UNCHANGED <<questionVars, clarifyVars, bruteForceVars, optimizeVars, complexityVars,
                 codeInput, language, reviewVars, loginVars, timerVars, mounted, inflight, runVars, modalVars>>

\* A stage tab button.
SetActiveTab(s) ==
  /\ Event
  /\ SessionView
  /\ s \in Tabs /\ s # activeTab
  /\ activeTab' = s
  /\ UNCHANGED <<questionVars, clarifyVars, bruteForceVars, optimizeVars, complexityVars,
                 codeInput, language, reviewVars, loginVars, timerVars, mounted, inflight, runVars, modalVars>>

\* The Begin Interview button of the Question tab.
handleStartInterview ==
  /\ Event
  /\ SessionView /\ activeTab = "Question"
  /\ activeTab' = "Clarify"
  /\ SetTimer(timer, TRUE, timeout, tickPending)
  /\ UNCHANGED <<questionVars, clarifyVars, bruteForceVars, optimizeVars, complexityVars,
                 codeInput, language, reviewVars, loginVars, mounted, inflight, runVars, modalVars>>

\* The pending one-second timeout fires: setTimer(t => t - 1), then the effect.
Tick ==
  /\ Callback
  /\ tickPending > 0
  /\ SetTimer(timer - 1, timerActive, timeout, tickPending - 1)
  /\ UNCHANGED <<activeTab, questionVars, clarifyVars, bruteForceVars, optimizeVars,
                 complexityVars, codeInput, language, reviewVars, loginVars, mounted,
                 inflight, runVars, modalVars>>

\* ------------------------------------------------------------- user input
SetClarifyInput(t) ==
  /\ Event
  /\ SessionView /\ activeTab = "Clarify"
  /\ t \in InputTexts /\ t # clarifyInput
  /\ clarifyInput' = t
  /\ UNCHANGED <<activeTab, questionVars, clarifyResponse, showClarifyFeedback,
                 clarifyLoading, bruteForceVars, optimizeVars, complexityVars, codeInput,
                 language, reviewVars, loginVars, timerVars, mounted, inflight, runVars, modalVars>>

SetBruteForceInput(t) ==
  /\ Event
  /\ SessionView /\ activeTab = "Brute Force"
  /\ t \in InputTexts /\ t # bruteForceInput
  /\ bruteForceInput' = t
  /\ UNCHANGED <<activeTab, questionVars, clarifyVars, bruteForceResponse,
                 showBruteForceFeedback, bruteForceLoading, optimizeVars, complexityVars,
                 codeInput, language, reviewVars, loginVars, timerVars, mounted, inflight, runVars, modalVars>>

SetOptimizeInput(t) ==
  /\ Event
  /\ SessionView /\ activeTab = "Optimize"
  /\ t \in InputTexts /\ t # optimizeInput
  /\ optimizeInput' = t
  /\ UNCHANGED <<activeTab, questionVars, clarifyVars, bruteForceVars, optimizeResponse,
                 showOptimizeFeedback, optimizeLoading, complexityVars, codeInput,
                 language, reviewVars, loginVars, timerVars, mounted, inflight, runVars, modalVars>>

\* The two complexity fields of the Brute Force tab.
SetBruteForceComplexity(t, sp) ==
  /\ Event
  /\ SessionView /\ activeTab = "Brute Force"
  /\ t \in ComplexityTexts /\ sp \in ComplexityTexts
  /\ (t = bruteForceTime) # (sp = bruteForceSpace)
  /\ bruteForceTime' = t
  /\ bruteForceSpace' = sp
  /\ UNCHANGED <<activeTab, questionVars, clarifyVars, bruteForceVars, optimizeVars,
                 optimizeTime, optimizeSpace, codeInput, language, reviewVars,
                 loginVars, timerVars, mounted, inflight, runVars, modalVars>>

\* The two complexity fields of the Optimize tab.
SetOptimizeComplexity(t, sp) ==
  /\ Event
  /\ SessionView /\ activeTab = "Optimize"
  /\ t \in ComplexityTexts /\ sp \in ComplexityTexts
  /\ (t = optimizeTime) # (sp = optimizeSpace)
  /\ optimizeTime' = t
  /\ optimizeSpace' = sp
  /\ UNCHANGED <<activeTab, questionVars, clarifyVars, bruteForceVars, optimizeVars,
                 bruteForceTime, bruteForceSpace, codeInput, language, reviewVars,
                 loginVars, timerVars, mounted, inflight, runVars, modalVars>>

\* The editor of the Code tab: setCodeInput(value || '').
SetCodeInput(t) ==
  /\ Event
  /\ SessionView /\ activeTab = "Code"
  /\ t \in CodeTexts /\ t # codeInput
  /\ codeInput' = OrElse(t, <<>>)
  /\ UNCHANGED <<activeTab, questionVars, clarifyVars, bruteForceVars, optimizeVars,
                 complexityVars, language, reviewVars, loginVars, timerVars, mounted,
                 inflight, runVars, modalVars>>

\* ---------------------------------------------------------- stage feedback
\* handleGetClarifyFeedback with a button that is not disabled while loading.
handleGetClarifyFeedbackNotDisabled ==
  /\ Event
  /\ SessionView /\ activeTab = "Clarify"
  /\ CanDispatch
  /\ clarifyLoading' = TRUE
  /\ showClarifyFeedback' = FALSE
  /\ inflight' = Dispatch(inflight, Authorized(Request("clarify", selectedQuestionId, "")))
  /\ UNCHANGED <<activeTab, questionVars, clarifyInput, clarifyResponse, bruteForceVars,
                 optimizeVars, complexityVars, codeInput, language, reviewVars,
                 loginVars, timerVars, mounted, runVars, modalVars>>

\* The Ask AI Interviewer button of the Clarify tab (disabled while loading).
handleGetClarifyFeedback ==
  /\ Event
  /\ SessionView /\ activeTab = "Clarify"
  /\ ~clarifyLoading
  /\ CanDispatch
  /\ clarifyLoading' = TRUE
  /\ showClarifyFeedback' = FALSE
  /\ inflight' = Dispatch(inflight, Authorized(Request("clarify", selectedQuestionId, "")))
  /\ UNCHANGED <<activeTab, questionVars, clarifyInput, clarifyResponse, bruteForceVars,
                 optimizeVars, complexityVars, codeInput, language, reviewVars,
                 loginVars, timerVars, mounted, runVars, modalVars>>

\* What data.response is for each outcome that lets the handler resume.
FeedbackOf(outcome, text) == IF outcome = "ok" THEN text ELSE Undefined

\* The settlement emptying the input box once the feedback has arrived.
ClarifySettleClearsInput(r, outcome, text) ==
  /\ Callback
  /\ r \in InFlight("clarify")
  /\ text \in FeedbackTexts
  /\ inflight' = Settled(inflight, r)
  /\ IF outcome = "rejected"
     THEN UNCHANGED <<clarifyInput, clarifyResponse, clarifyLoading, showClarifyFeedback>>
     ELSE /\ clarifyInput' = <<>>
          /\ clarifyResponse' = FeedbackOf(outcome, text)
          /\ clarifyLoading' = FALSE
          /\ showClarifyFeedback' = TRUE
  /\ UNCHANGED <<activeTab, questionVars, bruteForceVars, optimizeVars,
                 complexityVars, codeInput, language, reviewVars, loginVars, timerVars,
                 mounted, runVars, modalVars>>

\* /api/clarify settles.  The handler resumes after the two awaits unless the
\* fetch or the JSON parse rejected; it does not look at res.ok.
ClarifySettle(r, outcome, text) ==
  /\ Callback
  /\ r \in InFlight("clarify")
  /\ text \in FeedbackTexts
  /\ inflight' = Settled(inflight, r)
  /\ IF outcome = "rejected"
     THEN UNCHANGED <<clarifyResponse, clarifyLoading, showClarifyFeedback>>
     ELSE /\ clarifyResponse' = FeedbackOf(outcome, text)
          /\ clarifyLoading' = FALSE
          /\ showClarifyFeedback' = TRUE
  /\ UNCHANGED <<activeTab, questionVars, clarifyInput, bruteForceVars, optimizeVars,
                 complexityVars, codeInput, language, reviewVars, loginVars, timerVars,
                 mounted, runVars, modalVars>>

\* The Get Feedback button of the Brute Force tab never disabled.
handleGetBruteForceFeedbackNotDisabled ==
  /\ Event
  /\ SessionView /\ activeTab = "Brute Force"
  /\ CanDispatch
  /\ bruteForceLoading' = TRUE
  /\ showBruteForceFeedback' = FALSE
  /\ inflight' = Dispatch(inflight, Authorized(Request("brute-force", selectedQuestionId, "")))
  /\ UNCHANGED <<activeTab, questionVars, clarifyVars, bruteForceInput,
                 bruteForceResponse, optimizeVars, complexityVars, codeInput, language,
                 reviewVars, loginVars, timerVars, mounted, runVars, modalVars>>

\* The Get Feedback button of the Brute Force tab (disabled while loading).
handleGetBruteForceFeedback ==
  /\ Event
  /\ SessionView /\ activeTab = "Brute Force"
  /\ ~bruteForceLoading
  /\ CanDispatch
  /\ bruteForceLoading' = TRUE
  /\ showBruteForceFeedback' = FALSE
  /\ inflight' = Dispatch(inflight, Authorized(Request("brute-force", selectedQuestionId, "")))
  /\ UNCHANGED <<activeTab, questionVars, clarifyVars, bruteForceInput,
                 bruteForceResponse, optimizeVars, complexityVars, codeInput, language,
                 reviewVars, loginVars, timerVars, mounted, runVars, modalVars>>

BruteForceSettle(r, outcome, text) ==
  /\ Callback
  /\ r \in InFlight("brute-force")
  /\ text \in FeedbackTexts
  /\ inflight' = Settled(inflight, r)
  /\ IF outcome = "rejected"
     THEN UNCHANGED <<bruteForceResponse, bruteForceLoading, showBruteForceFeedback>>
     ELSE /\ bruteForceResponse' = FeedbackOf(outcome, text)
          /\ bruteForceLoading' = FALSE
          /\ showBruteForceFeedback' = TRUE
  /\ UNCHANGED <<activeTab, questionVars, clarifyVars, bruteForceInput, optimizeVars,
                 complexityVars, codeInput, language, reviewVars, loginVars, timerVars,
                 mounted, runVars, modalVars>>

\* The Get Feedback button of the Optimize tab (disabled while loading).
handleGetOptimizeFeedback ==
  /\ Event
  /\ SessionView /\ activeTab = "Optimize"
  /\ ~optimizeLoading
  /\ CanDispatch
  /\ optimizeLoading' = TRUE
  /\ showOptimizeFeedback' = FALSE
  /\ inflight' = Dispatch(inflight, Authorized(Request("optimize", selectedQuestionId, "")))
  /\ UNCHANGED <<activeTab, questionVars, clarifyVars, bruteForceVars, optimizeInput,
                 optimizeResponse, complexityVars, codeInput, language, reviewVars,
                 loginVars, timerVars, mounted, runVars, modalVars>>

OptimizeSettle(r, outcome, text) ==
  /\ Callback
  /\ r \in InFlight("optimize")
  /\ text \in FeedbackTexts
  /\ inflight' = Settled(inflight, r)
  /\ IF outcome = "rejected"
     THEN UNCHANGED <<optimizeResponse, optimizeLoading, showOptimizeFeedback>>
     ELSE /\ optimizeResponse' = FeedbackOf(outcome, text)
          /\ optimizeLoading' = FALSE
          /\ showOptimizeFeedback' = TRUE
  /\ UNCHANGED <<activeTab, questionVars, clarifyVars, bruteForceVars, optimizeInput,
                 complexityVars, codeInput, language, reviewVars, loginVars, timerVars,
                 mounted, runVars, modalVars>>

\* ------------------------------------------------------------ final review
\* The validation with the negation of the code operand lost.
AllBlankCodeFlipped ==
  /\ ~Truthy(Trim(clarifyInput))
  /\ ~Truthy(Trim(bruteForceInput))
  /\ Truthy(Trim(codeInput))

\* The validation with || in place of &&.
AnyBlank ==
  \/ ~Truthy(Trim(clarifyInput))
  \/ ~Truthy(Trim(bruteForceInput))
  \/ ~Truthy(Trim(codeInput))

\* The validation of handleCodeReview: every answer is blank after trim().
\* codeInput.trim() is evaluated only when the two others are blank.
AllBlank ==
  /\ ~Truthy(Trim(clarifyInput))
  /\ ~Truthy(Trim(bruteForceInput))
  /\ ~Truthy(Trim(codeInput))

\* codeInput.trim() throws on undefined and the handler ends there.
ValidationThrows ==
  /\ ~Truthy(Trim(clarifyInput))
  /\ ~Truthy(Trim(bruteForceInput))
  /\ codeInput = Undefined

\* The Submit Solution button refusing to act once the time is up.
handleCodeReviewBlockedOnTimeout ==
  /\ Event
  /\ SessionView /\ activeTab = "Code"
  /\ ~timeout
  /\ ~ValidationThrows
  /\ IF AllBlank
     THEN /\ codeReviewError' = ValidationMessage
          /\ UNCHANGED inflight
     ELSE /\ CanDispatch
          /\ codeReviewError' = <<>>
          /\ inflight' = Dispatch(inflight, Authorized(Request("code-review", selectedQuestionId, language)))
  /\ UNCHANGED <<activeTab, questionVars, clarifyVars, bruteForceVars, optimizeVars,
                 complexityVars, codeInput, language, review, actualSolution, loginVars,
                 timerVars, mounted, runVars, modalVars>>

\* The Submit Solution button of the Code tab, the dialog confirmed
\* (a cancelled dialog, like a throwing validation, changes nothing).
handleCodeReview ==
  /\ Event
  /\ SessionView /\ activeTab = "Code"
  /\ ~ValidationThrows
  /\ IF AllBlank
     THEN /\ codeReviewError' = ValidationMessage
          /\ UNCHANGED inflight
     ELSE /\ CanDispatch
          /\ codeReviewError' = <<>>
          /\ inflight' = Dispatch(inflight, Authorized(Request("code-review", selectedQuestionId, language)))
  /\ UNCHANGED <<activeTab, questionVars, clarifyVars, bruteForceVars, optimizeVars,
                 complexityVars, codeInput, language, review, actualSolution, loginVars,
                 timerVars, mounted, runVars, modalVars>>

\* data.actual_solution read under a key the response does not have.
SolutionOfWrongKey(outcome, body) == Undefined

\* What data.review and data.actual_solution are for each outcome.
ReviewOf(outcome, body) == IF outcome = "ok" THEN body.review ELSE Undefined
SolutionOf(outcome, body) == IF outcome = "ok" THEN body.actual_solution ELSE Undefined

\* /api/code-review settles; res.ok is not looked at.
CodeReviewSettle(r, outcome, body) ==
  /\ Callback
  /\ r \in InFlight("code-review")
  /\ body \in ReviewBodies
  /\ inflight' = Settled(inflight, r)
  /\ IF outcome = "rejected"
     THEN UNCHANGED <<review, actualSolution, activeTab, timerVars>>
     ELSE /\ review' = ReviewOf(outcome, body)
          /\ actualSolution' = OrElse(SolutionOf(outcome, body), Null)
          /\ activeTab' = "Review"
          /\ SetTimer(timer, FALSE, timeout, tickPending)
  /\ UNCHANGED <<questionVars, clarifyVars, bruteForceVars, optimizeVars, complexityVars,
                 codeInput, language, codeReviewError, loginVars, mounted, runVars, modalVars>>

\* ---------------------------------------------------------------- run code
\* The catch block of handleRunCode left out: a failure leaves the output.
RunOutputOfNoCatch(outcome, body) ==
  IF outcome = "ok" THEN OrElse(body.output, <<>>) ELSE <<>>

\* What handleRunCode stores in runOutput for each outcome of /api/run-code:
\* data.output || '' on a 2xx, 'Error: ' + (data.detail || 'Failed to run
\* code') on a non-2xx, 'Error: ' + the message of the rejection otherwise.
RunOutputOf(outcome, body) ==
  CASE outcome = "ok" -> OrElse(body.output, <<>>)
    [] outcome = "httpError" -> ErrorPrefix \o OrElse(body.detail, FailedToRun)
    [] OTHER -> ErrorPrefix \o NetworkMessage

\* The Run Code button of the Code tab, disabled while runLoading.
handleRunCode ==
  /\ Event
  /\ SessionView /\ activeTab = "Code"
  /\ ~runLoading
  /\ CanDispatch
  /\ runLoading' = TRUE
  /\ runOutput' = <<>>
  /\ inflight' = Dispatch(inflight, Authorized(Request("run-code", selectedQuestionId, language)))
  /\ UNCHANGED <<activeTab, questionVars, clarifyVars, bruteForceVars, optimizeVars,
                 complexityVars, codeInput, language, reviewVars, loginVars, timerVars,
                 mounted, modalVars>>

\* /api/run-code settles: the try block, the catch block, setRunLoading(false).
RunCodeSettle(r, outcome, body) ==
  /\ Callback
  /\ r \in InFlight("run-code")
  /\ body \in RunBodies
  /\ inflight' = Settled(inflight, r)
  /\ runOutput' = RunOutputOf(outcome, body)
  /\ runLoading' = FALSE
  /\ UNCHANGED <<activeTab, questionVars, clarifyVars, bruteForceVars, optimizeVars,
                 complexityVars, codeInput, language, reviewVars, loginVars, timerVars,
                 mounted, modalVars>>

\* ----------------------------------------------------------------- restart
\* handleRestart without setActualSolution(null).
handleRestartKeepsSolution ==
  /\ Event
  /\ activeTab' = "Question"
  /\ question' = NoQuestion
  /\ selectedQuestionId' = NoQuestion
  /\ clarifyInput' = <<>>
  /\ clarifyResponse' = <<>>
  /\ showClarifyFeedback' = FALSE
  /\ bruteForceInput' = <<>>
  /\ bruteForceResponse' = <<>>
  /\ showBruteForceFeedback' = FALSE
  /\ optimizeInput' = <<>>
  /\ optimizeResponse' = <<>>
  /\ showOptimizeFeedback' = FALSE
  /\ codeInput' = <<>>
  /\ review' = Null
  /\ codeReviewError' = <<>>
  /\ SetTimer(FullBudget, FALSE, FALSE, tickPending)
  /\ inflight' = MarkStale(inflight)
  /\ UNCHANGED <<questions, clarifyLoading, bruteForceLoading, optimizeLoading,
                 complexityVars, language, loginVars, mounted, actualSolution, runVars, modalVars>>

\* The header logo, or Start New Interview on the Review tab.
handleRestart ==
  /\ Event
  /\ activeTab' = "Question"
  /\ question' = NoQuestion
  /\ selectedQuestionId' = NoQuestion
  /\ clarifyInput' = <<>>
  /\ clarifyResponse' = <<>>
  /\ showClarifyFeedback' = FALSE
  /\ bruteForceInput' = <<>>
  /\ bruteForceResponse' = <<>>
  /\ showBruteForceFeedback' = FALSE
  /\ optimizeInput' = <<>>
  /\ optimizeResponse' = <<>>
  /\ showOptimizeFeedback' = FALSE
  /\ codeInput' = <<>>
  /\ review' = Null
  /\ actualSolution' = Null
  /\ codeReviewError' = <<>>
  /\ SetTimer(FullBudget, FALSE, FALSE, tickPending)
  /\ inflight' = MarkStale(inflight)
  /\ UNCHANGED <<questions, clarifyLoading, bruteForceLoading, optimizeLoading,
                 complexityVars, language, loginVars, mounted, runVars, modalVars>>

\* ------------------------------------------------------------- login modal
\* What the modals leave alone: the state of the session.
sessionVars == <<activeTab, questionVars, clarifyVars, bruteForceVars, optimizeVars,
                 complexityVars, codeInput, language, reviewVars, timerVars, runVars,
                 mounted, events>>

\* A Login button of the landing page; the effect on [open] fetches a CAPTCHA.
OpenLogin ==
  /\ mounted
  /\ ~isLoggedIn /\ ~showLogin /\ ~showSignup
  /\ CanDispatch
  /\ showLogin' = TRUE
  /\ inflight' = Dispatch(inflight, Request("login-captcha", NoQuestion, ""))
  /\ UNCHANGED <<sessionVars, loginVars, showSignup, loginModal, signupModal>>

\* The Cancel button of LoginModal (disabled while loading).
CloseLogin ==
  /\ mounted
  /\ showLogin /\ ~loginModal.loading
  /\ showLogin' = FALSE
  /\ UNCHANGED <<sessionVars, loginVars, showSignup, loginModal, signupModal, inflight>>

\* fetchCaptcha of LoginModal settles.
LoginCaptchaSettle(r, outcome) ==
  /\ mounted
  /\ r \in InFlight("login-captcha")
  /\ inflight' = Settled(inflight, r)
  /\ loginModal' = IF outcome = "ok"
                   THEN [loginModal EXCEPT !.captchaData = TRUE, !.captchaAnswer = <<>>]
                   ELSE [loginModal EXCEPT !.error = FailedToLoadCaptcha]
  /\ UNCHANGED <<sessionVars, loginVars, showLogin, showSignup, signupModal>>

\* The CAPTCHA answer box, rendered once captchaData is there.
SetLoginCaptchaAnswer(t) ==
  /\ mounted
  /\ showLogin /\ loginModal.captchaData
  /\ t \in CaptchaAnswers /\ t # loginModal.captchaAnswer
  /\ loginModal' = [loginModal EXCEPT !.captchaAnswer = t]
  /\ UNCHANGED <<sessionVars, loginVars, showLogin, showSignup, signupModal, inflight>>

\* LoginModal.handleSubmit up to its await.  The submit button is disabled
\* while loading and the browser refuses an empty required answer box.
LoginSubmit ==
  /\ mounted
  /\ showLogin /\ ~loginModal.loading
  /\ loginModal.captchaData => loginModal.captchaAnswer # <<>>
  /\ IF ~loginModal.captchaData
     THEN /\ loginModal' = [loginModal EXCEPT !.error = CaptchaNotLoaded, !.loading = FALSE]
          /\ UNCHANGED inflight
     ELSE IF ~Truthy(Trim(loginModal.captchaAnswer))
     THEN /\ loginModal' = [loginModal EXCEPT !.error = PleaseAnswerCaptcha,
                                              !.loading = FALSE]
          /\ UNCHANGED inflight
     ELSE /\ CanDispatch
          /\ loginModal' = [loginModal EXCEPT !.error = <<>>, !.loading = TRUE]
          /\ inflight' = Dispatch(inflight, Request("login", NoQuestion, ""))
  /\ UNCHANGED <<sessionVars, loginVars, showLogin, showSignup, signupModal>>

\* The settlement with the returns of the !res.ok branch skipping
\* setLoading(false).
LoginSettleNoFinally(r, outcome, detail) ==
  /\ mounted
  /\ r \in InFlight("login")
  /\ detail \in LoginDetails
  /\ CASE outcome = "ok" ->
            /\ token' = TRUE
            /\ isLoggedIn' = TRUE
            /\ showLogin' = FALSE
            /\ loginModal' = [loginModal EXCEPT !.loading = FALSE]
            /\ inflight' = Dispatch(Settled(inflight, r),
                                    Request("questions", NoQuestion, ""))
       [] outcome = "httpError" /\ detail \in {InvalidCaptchaDetail, InvalidCredentialsDetail} ->
            /\ loginModal' = [loginModal EXCEPT
                 !.error = IF detail = InvalidCaptchaDetail
                           THEN IncorrectCaptcha ELSE InvalidUserOrPassword,
                 !.captchaAnswer = <<>>]
            /\ inflight' = Dispatch(Settled(inflight, r),
                                    Request("login-captcha", NoQuestion, ""))
            /\ UNCHANGED <<loginVars, showLogin>>
       [] outcome = "httpError" ->
            /\ loginModal' = [loginModal EXCEPT !.error = OrElse(detail, LoginFailed),
                                                !.loading = FALSE]
            /\ inflight' = Settled(inflight, r)
            /\ UNCHANGED <<loginVars, showLogin>>
       [] OTHER ->
            /\ loginModal' = [loginModal EXCEPT !.error = NetworkMessage, !.loading = FALSE]
            /\ inflight' = Settled(inflight, r)
            /\ UNCHANGED <<loginVars, showLogin>>
  /\ UNCHANGED <<sessionVars, showSignup, signupModal>>

\* /api/login settles: the rest of LoginModal.handleSubmit, its finally
\* block included.  A 2xx calls onLoginSuccess (handleLoginSuccess, then the
\* login-state effect) and onClose.
LoginSettle(r, outcome, detail) ==
  /\ mounted
  /\ r \in InFlight("login")
  /\ detail \in LoginDetails
  /\ CASE outcome = "ok" ->
            /\ token' = TRUE
            /\ isLoggedIn' = TRUE
            /\ showLogin' = FALSE
            /\ loginModal' = [loginModal EXCEPT !.loading = FALSE]
            /\ inflight' = Dispatch(Settled(inflight, r),
                                    Request("questions", NoQuestion, ""))
       [] outcome = "httpError" /\ detail \in {InvalidCaptchaDetail, InvalidCredentialsDetail} ->
            /\ loginModal' = [loginModal EXCEPT
                 !.error = IF detail = InvalidCaptchaDetail
                           THEN IncorrectCaptcha ELSE InvalidUserOrPassword,
                 !.captchaAnswer = <<>>,
                 !.loading = FALSE]
            /\ inflight' = Dispatch(Settled(inflight, r),
                                    Request("login-captcha", NoQuestion, ""))
            /\ UNCHANGED <<loginVars, showLogin>>
       [] outcome = "httpError" ->
            /\ loginModal' = [loginModal EXCEPT !.error = OrElse(detail, LoginFailed),
                                                !.loading = FALSE]
            /\ inflight' = Settled(inflight, r)
            /\ UNCHANGED <<loginVars, showLogin>>
       [] OTHER ->
            /\ loginModal' = [loginModal EXCEPT !.error = NetworkMessage, !.loading = FALSE]
            /\ inflight' = Settled(inflight, r)
            /\ UNCHANGED <<loginVars, showLogin>>
  /\ UNCHANGED <<sessionVars, showSignup, signupModal>>

\* ------------------------------------------------------------ signup modal
\* A Sign Up button of the landing page; the effect on [open] fetches a CAPTCHA.
OpenSignup ==
  /\ mounted
  /\ ~isLoggedIn /\ ~showLogin /\ ~showSignup
  /\ CanDispatch
  /\ showSignup' = TRUE
  /\ inflight' = Dispatch(inflight, Request("signup-captcha", NoQuestion, ""))
  /\ UNCHANGED <<sessionVars, loginVars, showLogin, loginModal, signupModal>>

\* The Cancel button of SignupModal (disabled while loading).
CloseSignup ==
  /\ mounted
  /\ showSignup /\ ~signupModal.loading
  /\ showSignup' = FALSE
  /\ UNCHANGED <<sessionVars, loginVars, showLogin, loginModal, signupModal, inflight>>

\* The timeout set after a successful signup fires: onClose.
SignupCloseTimeout ==
  /\ mounted
  /\ signupModal.closePending > 0
  /\ showSignup' = FALSE
  /\ signupModal' = [signupModal EXCEPT !.closePending = @ - 1]
  /\ UNCHANGED <<sessionVars, loginVars, showLogin, loginModal, inflight>>

\* fetchCaptcha of SignupModal settles.
SignupCaptchaSettle(r, outcome) ==
  /\ mounted
  /\ r \in InFlight("signup-captcha")
  /\ inflight' = Settled(inflight, r)
  /\ signupModal' = IF outcome = "ok"
                    THEN [signupModal EXCEPT !.captchaData = TRUE, !.captchaAnswer = <<>>]
                    ELSE [signupModal EXCEPT !.error = FailedToLoadCaptcha]
  /\ UNCHANGED <<sessionVars, loginVars, showLogin, showSignup, loginModal>>

SetSignupCaptchaAnswer(t) ==
  /\ mounted
  /\ showSignup /\ signupModal.captchaData
  /\ t \in CaptchaAnswers /\ t # signupModal.captchaAnswer
  /\ signupModal' = [signupModal EXCEPT !.captchaAnswer = t]
  /\ UNCHANGED <<sessionVars, loginVars, showLogin, showSignup, loginModal, inflight>>

\* SignupModal.handleSubmit up to its await.
SignupSubmit ==
  /\ mounted
  /\ showSignup /\ ~signupModal.loading
  /\ signupModal.captchaData => signupModal.captchaAnswer # <<>>
  /\ IF ~signupModal.captchaData
     THEN /\ signupModal' = [signupModal EXCEPT !.error = CaptchaNotLoaded,
                                                !.success = FALSE, !.loading = FALSE]
          /\ UNCHANGED inflight
     ELSE IF ~Truthy(Trim(signupModal.captchaAnswer))
     THEN /\ signupModal' = [signupModal EXCEPT !.error = PleaseAnswerCaptcha,
                                                !.success = FALSE, !.loading = FALSE]
          /\ UNCHANGED inflight
     ELSE /\ CanDispatch
          /\ signupModal.closePending < MaxInFlight
          /\ signupModal' = [signupModal EXCEPT !.error = <<>>, !.success = FALSE,
                                                !.loading = TRUE]
          /\ inflight' = Dispatch(inflight, Request("register", NoQuestion, ""))
  /\ UNCHANGED <<sessionVars, loginVars, showLogin, showSignup, loginModal>>

\* /api/register settles: the rest of SignupModal.handleSubmit, its finally
\* block included.  A 2xx calls onSignupSuccess, which closes the modal, and
\* schedules onClose one second later.
SignupSettle(r, outcome, detail) ==
  /\ mounted
  /\ r \in InFlight("register")
  /\ detail \in SignupDetails
  /\ CASE outcome = "ok" ->
            /\ showSignup' = FALSE
            /\ signupModal' = [signupModal EXCEPT !.success = TRUE, !.loading = FALSE,
                                                  !.closePending = @ + 1]
            /\ inflight' = Settled(inflight, r)
       [] outcome = "httpError" /\ detail \in {InvalidCaptchaDetail, AlreadyRegisteredDetail} ->
            /\ signupModal' = [signupModal EXCEPT
                 !.error = IF detail = InvalidCaptchaDetail
                           THEN IncorrectCaptcha ELSE UsernameExists,
                 !.captchaAnswer = <<>>,
                 !.loading = FALSE]
            /\ inflight' = Dispatch(Settled(inflight, r),
                                    Request("signup-captcha", NoQuestion, ""))
            /\ UNCHANGED showSignup
       [] outcome = "httpError" ->
            /\ signupModal' = [signupModal EXCEPT !.error = OrElse(detail, SignupFailed),
                                                  !.loading = FALSE]
            /\ inflight' = Settled(inflight, r)
            /\ UNCHANGED showSignup
       [] OTHER ->
            /\ signupModal' = [signupModal EXCEPT !.error = NetworkMessage, !.loading = FALSE]
            /\ inflight' = Settled(inflight, r)
            /\ UNCHANGED showSignup
  /\ UNCHANGED <<sessionVars, loginVars, showLogin, loginModal>>

\* -------------------------------------------------------------------- Next
Next ==
  \/ handleLoginSuccess
  \/ handleLogout
  \/ \E q \in QuestionIds : SelectQuestion(q)
  \/ \E s \in Tabs : SetActiveTab(s)
  \/ handleStartInterview
  \/ Tick
  \/ \E t \in InputTexts : SetClarifyInput(t)
  \/ \E t \in InputTexts : SetBruteForceInput(t)
  \/ \E t \in InputTexts : SetOptimizeInput(t)
  \/ \E t \in ComplexityTexts, sp \in ComplexityTexts : SetBruteForceComplexity(t, sp)
  \/ \E t \in ComplexityTexts, sp \in ComplexityTexts : SetOptimizeComplexity(t, sp)
  \/ \E t \in CodeTexts : SetCodeInput(t)
  \/ \E l \in languages : SetLanguage(l)
  \/ handleGetClarifyFeedback
  \/ handleGetBruteForceFeedback
  \/ handleGetOptimizeFeedback
  \/ handleCodeReview
  \/ handleRunCode
  \/ handleRestart
  \/ \E r \in BagToSet(inflight), outcome \in Outcomes : QuestionsSettle(r, outcome)
  \/ \E r \in BagToSet(inflight), outcome \in Outcomes : StartSessionSettle(r, outcome)
  \/ \E r \in BagToSet(inflight), outcome \in Outcomes : FunctionDefinitionSettle(r, outcome)
  \/ \E r \in BagToSet(inflight), outcome \in Outcomes, text \in FeedbackTexts :
       ClarifySettle(r, outcome, text)
  \/ \E r \in BagToSet(inflight), outcome \in Outcomes, text \in FeedbackTexts :
       BruteForceSettle(r, outcome, text)
  \/ \E r \in BagToSet(inflight), outcome \in Outcomes, text \in FeedbackTexts :
       OptimizeSettle(r, outcome, text)
  \/ \E r \in BagToSet(inflight), outcome \in Outcomes, body \in ReviewBodies :
       CodeReviewSettle(r, outcome, body)
  \/ \E r \in BagToSet(inflight), outcome \in Outcomes, body \in RunBodies :
       RunCodeSettle(r, outcome, body)

Spec == Init /\ [][Next]_vars

\* The landing page with its two modals: the forms, their requests and the
\* questions fetch a login starts.
ModalNext ==
  \/ OpenLogin
  \/ CloseLogin
  \/ \E t \in CaptchaAnswers : SetLoginCaptchaAnswer(t)
  \/ LoginSubmit
  \/ \E r \in BagToSet(inflight), outcome \in Outcomes : LoginCaptchaSettle(r, outcome)
  \/ \E r \in BagToSet(inflight), outcome \in Outcomes, detail \in LoginDetails :
       LoginSettle(r, outcome, detail)
  \/ OpenSignup
  \/ CloseSignup
  \/ SignupCloseTimeout
  \/ \E t \in CaptchaAnswers : SetSignupCaptchaAnswer(t)
  \/ SignupSubmit
  \/ \E r \in BagToSet(inflight), outcome \in Outcomes : SignupCaptchaSettle(r, outcome)
  \/ \E r \in BagToSet(inflight), outcome \in Outcomes, detail \in SignupDetails :
       SignupSettle(r, outcome, detail)
  \/ \E r \in BagToSet(inflight), outcome \in Outcomes : QuestionsSettle(r, outcome)

ModalSpec == Init /\ [][ModalNext]_vars

TypeOK ==
  /\ activeTab \in Tabs
  /\ question \in QuestionIds \cup {NoQuestion}
  /\ selectedQuestionId \in QuestionIds \cup {NoQuestion}
  /\ timer \in 0..FullBudget
  /\ tickPending \in 0..1
  /\ runOutput \in RunOutputs
  /\ token \in BOOLEAN /\ isLoggedIn \in BOOLEAN /\ runLoading \in BOOLEAN
  /\ showLogin \in BOOLEAN /\ showSignup \in BOOLEAN
  /\ loginModal.captchaAnswer \in CaptchaAnswers
  /\ signupModal.captchaAnswer \in CaptchaAnswers
  /\ signupModal.closePending \in 0..MaxInFlight

\* ================================================================== claims
\* The state handleRestart is specified to leave behind.
RestartCleared ==
  /\ question = NoQuestion /\ selectedQuestionId = NoQuestion
  /\ review = Null /\ actualSolution = Null
  /\ timer = FullBudget /\ ~timerActive /\ ~timeout
  /\ activeTab = "Question"
  /\ clarifyInput = <<>> /\ clarifyResponse = <<>> /\ ~showClarifyFeedback
  /\ bruteForceInput = <<>> /\ bruteForceResponse = <<>> /\ ~showBruteForceFeedback
  /\ optimizeInput = <<>> /\ optimizeResponse = <<>> /\ ~showOptimizeFeedback
  /\ codeInput = <<>>

\* C1: from every reachable state, the state right after restart() has no
\* Question, no selected id, no Review, no reference solution, the timer at
\* the full budget, inactive and not expired, the Question stage active and
\* every stage's input, feedback and shown flag and the code text cleared.
C1_RestartClears == [][handleRestart => RestartCleared']_vars

\* A restart has happened in a session that had a review request in flight
\* and had been given a question, and nothing has settled since.
C1_Witness ==
  /\ RestartCleared
  /\ \E r \in InFlight("code-review") : r.stale /\ r.qid # NoQuestion

\* A step in which a request dispatched before the last restart settles.
StaleSettles ==
  \E r \in BagToSet(inflight) : r.stale /\ CopiesIn(r, inflight') < CopiesIn(r, inflight)

\* C2: no response to a request dispatched before restart() changes session
\* state when it settles after restart(): Question, Review, reference
\* solution, every stage's feedback and shown flag, the code text, the active
\* stage and the timer are left as they are by such a settlement.
C2_StaleResponsesInert ==
  [][StaleSettles =>
       UNCHANGED <<question, review, actualSolution, clarifyResponse, showClarifyFeedback,
                   bruteForceResponse, showBruteForceFeedback, optimizeResponse,
                   showOptimizeFeedback, codeInput, activeTab, timer, timerActive,
                   timeout>>]_vars

\* C3: right after restart() the declared time and space complexity of
\* BRUTE_FORCE and OPTIMIZE are empty and no stage is loading.
C3_RestartClearsComplexityAndLoading ==
  [][handleRestart =>
       /\ bruteForceTime' = <<>> /\ bruteForceSpace' = <<>>
       /\ optimizeTime' = <<>> /\ optimizeSpace' = <<>>
       /\ ~clarifyLoading' /\ ~bruteForceLoading' /\ ~optimizeLoading']_vars

\* C4: in every reachable state, a stage whose shown flag is true is not
\* loading and its feedback is the non-empty text of a successful response.
C4_ShownImpliesFeedback ==
  /\ showClarifyFeedback => ~clarifyLoading /\ clarifyResponse \in FeedbackTexts
  /\ showBruteForceFeedback => ~bruteForceLoading /\ bruteForceResponse \in FeedbackTexts
  /\ showOptimizeFeedback => ~optimizeLoading /\ optimizeResponse \in FeedbackTexts

\* C5: every settlement of a submitStage request (success, non-2xx, rejected
\* fetch) sets that stage's loading flag to false.
C5_SettleResetsLoading ==
  [][/\ (\E r \in BagToSet(inflight), o \in Outcomes, t \in FeedbackTexts :
            ClarifySettle(r, o, t)) => ~clarifyLoading'
     /\ (\E r \in BagToSet(inflight), o \in Outcomes, t \in FeedbackTexts :
            BruteForceSettle(r, o, t)) => ~bruteForceLoading'
     /\ (\E r \in BagToSet(inflight), o \in Outcomes, t \in FeedbackTexts :
            OptimizeSettle(r, o, t)) => ~optimizeLoading']_vars

\* C6: a non-2xx response or a rejected fetch of a submitStage request sets
\* neither shown = true nor a new feedback text for that stage.
C6_FailureKeepsFeedback ==
  [][\A r \in BagToSet(inflight), o \in {"httpError", "rejected"}, t \in FeedbackTexts :
       /\ ClarifySettle(r, o, t) => UNCHANGED <<clarifyResponse, showClarifyFeedback>>
       /\ BruteForceSettle(r, o, t) =>
            UNCHANGED <<bruteForceResponse, showBruteForceFeedback>>
       /\ OptimizeSettle(r, o, t) => UNCHANGED <<optimizeResponse, showOptimizeFeedback>>]_vars

AllEmpty == clarifyInput = <<>> /\ bruteForceInput = <<>> /\ codeInput = <<>>

\* C8: submitReview() with clarification, brute-force and code text all empty
\* issues no network call, records the validation error and leaves Review,
\* the reference solution, the active stage and the timer unchanged.
C8_EmptyReviewRejected ==
  [][(handleCodeReview /\ AllEmpty) =>
       /\ inflight' = inflight
       /\ codeReviewError' = ValidationMessage
       /\ UNCHANGED <<review, actualSolution, activeTab, timerVars>>]_vars

\* The validation error is displayed on the Code tab with all answers empty.
C8_Witness ==
  /\ AllEmpty
  /\ activeTab = "Code"
  /\ codeReviewError = ValidationMessage

\* One more code-review request is in flight after the step, and nothing else
\* was sent or settled.
OneReviewCallIssued ==
  /\ InFlightCount("code-review", inflight') = InFlightCount("code-review", inflight) + 1
  /\ BagCardinality(inflight') = BagCardinality(inflight) + 1

\* C9 (as stated): submitReview() with at least one non-empty value among
\* clarification, brute-force and code text passes validation, clears the
\* validation error and issues exactly one code-review call.
C9_NonEmptyReviewSent ==
  [][(handleCodeReview /\ (Truthy(clarifyInput) \/ Truthy(bruteForceInput)
                             \/ Truthy(codeInput))) =>
       (codeReviewError' = <<>> /\ OneReviewCallIssued)]_vars

\* C9 (amended): the same for at least one value that is non-empty after
\* white space is trimmed from its ends.
C9_NonBlankReviewSent ==
  [][(handleCodeReview /\ (Truthy(Trim(clarifyInput)) \/ Truthy(Trim(bruteForceInput))
                             \/ Truthy(Trim(codeInput)))) =>
       (codeReviewError' = <<>> /\ OneReviewCallIssued)]_vars

\* A review request is in flight that was sent with code only.
C9_Witness ==
  /\ InFlight("code-review") # {}
  /\ clarifyInput = <<>> /\ bruteForceInput = <<>>
  /\ Truthy(Trim(codeInput))
  /\ activeTab = "Code"
  /\ codeReviewError = <<>>

\* The reference solution a response body stands for.
ReferenceSolution(body) ==
  IF body.actual_solution \in {Undefined, <<>>} THEN Null ELSE body.actual_solution

\* C10: a successful code-review response replaces, in one step, Review and
\* the reference solution by the values of that response (null without a
\* solution), stops the timer and makes REVIEW the active stage; in every
\* reachable state Review and the reference solution are those of one
\* response.
C10_ReviewReplacedAtomically ==
  /\ [][\A r \in BagToSet(inflight), body \in ReviewBodies :
          CodeReviewSettle(r, "ok", body) =>
            /\ review' = body.review
            /\ actualSolution' = ReferenceSolution(body)
            /\ ~timerActive'
            /\ activeTab' = "Review"]_vars
  /\ [](\/ review \in {Null, Undefined} /\ actualSolution = Null
        \/ \E body \in ReviewBodies :
             review = body.review /\ actualSolution = ReferenceSolution(body))

\* A review with its solution is displayed and stopped a timer that had run.
C10_Witness ==
  /\ review = <<"review1">> /\ actualSolution = <<"solution1">>
  /\ activeTab = "Review"
  /\ ~timerActive /\ ~timeout /\ timer < FullBudget

\* C11: a failed code-review call (non-2xx or rejected) leaves Review, the
\* reference solution, the active stage and the timer exactly as they were, so
\* the user can submit again while the timer keeps running.
C11_ReviewFailureKeepsState ==
  [][\A r \in BagToSet(inflight), o \in {"httpError", "rejected"}, body \in ReviewBodies :
       CodeReviewSettle(r, o, body) =>
         UNCHANGED <<review, actualSolution, activeTab, timer, timerActive, timeout,
                     tickPending>>]_vars

C13_ExpiryIsFinal ==
  /\ []((timer = 0) = timeout)
  /\ [](timeout => tickPending = 0)
  /\ [][Tick => timer' = timer - 1]_vars
  /\ [][(~timeout /\ timeout') => (Tick /\ timer = 1)]_vars
  /\ [][(timeout /\ ~handleRestart) => (timeout' /\ timer' = 0 /\ tickPending' = 0)]_vars

\* The time ran out and Begin Interview was pressed again afterwards.
C13_Witness == timeout /\ timer = 0 /\ timerActive /\ activeTab = "Clarify"

\* C14: the remaining time changes only by a tick, which takes exactly 1
\* from it and occurs only while the timer is active, not expired and above
\* 0, or by restart(), which sets it to the full budget; it never grows
\* within a session and stays within 0..full budget.
C14_TimerChangesOnlyByTickOrRestart ==
  /\ [](timer \in 0..FullBudget)
  /\ [][Tick => (timerActive /\ ~timeout /\ timer > 0)]_vars
  /\ [][timer' # timer =>
          \/ Tick /\ timer' = timer - 1
          \/ handleRestart /\ timer' = FullBudget]_vars
  /\ [][timer' > timer => handleRestart]_vars

\* A session whose timer has ticked and is still running.
C14_Witness ==
  /\ question # NoQuestion
  /\ timerActive /\ ~timeout /\ tickPending = 1
  /\ 0 < timer /\ timer < FullBudget

\* C15: every begin-interview transition leaves the timer active with the
\* remaining time equal to the full budget, also when it is taken again after
\* a review success or after the user went back to QUESTION with time
\* consumed.
C15_BeginInterviewStartsFullTimer ==
  [][handleStartInterview => (timerActive' /\ timer' = FullBudget)]_vars

\* C16: a start-session request that fails (non-2xx or rejected) assigns no
\* Question: the Question keeps the value it had, and no stage, Review or
\* timer state changes.
C16_StartSessionFailureAssignsNothing ==
  [][\A r \in BagToSet(inflight), o \in {"httpError", "rejected"} :
       StartSessionSettle(r, o) =>
         UNCHANGED <<question, activeTab, clarifyVars, bruteForceVars, optimizeVars,
                     codeInput, reviewVars, timerVars>>]_vars

\* A question is selected, its start-session request has settled, and no
\* Question was assigned.
C16_Witness ==
  /\ isLoggedIn /\ mounted
  /\ selectedQuestionId # NoQuestion
  /\ question = NoQuestion
  /\ InFlight("start-session") = {}

\* C17: after the start-session request for q has failed, selecting q again
\* issues a new start-session request for q.
C17_ReselectRetries ==
  \A q \in QuestionIds :
    (/\ mounted /\ events < MaxEvents /\ CanDispatch
     /\ ListView /\ q \in questions
     /\ selectedQuestionId = q
     /\ InFlight("start-session") = {}) => ENABLED SelectQuestion(q)

\* A function-definition request for question q and language l was added.
FunctionDefinitionIssued(q, l) ==
  /\ InFlightCount("function-definition", inflight')
       = InFlightCount("function-definition", inflight) + 1
  /\ CopiesIn(Request("function-definition", q, l), inflight')
       = CopiesIn(Request("function-definition", q, l), inflight) + 1

\* C18: a successful start-session for q assigns the Question with id q; each
\* change of the language to l issues exactly one function-definition request
\* with {question_id: the Question's id, language: l}; the skeleton is
\* requested on an assignment of the Question or a change of the language and
\* on nothing else.
C18_SkeletonRefetch ==
  /\ [][\A r \in BagToSet(inflight) :
          StartSessionSettle(r, "ok") =>
            (question' = r.qid /\ FunctionDefinitionIssued(r.qid, language))]_vars
  /\ [][\A l \in languages :
          SetLanguage(l) =>
            (/\ language' = l /\ question' = question
             /\ FunctionDefinitionIssued(question, l)
             /\ BagCardinality(inflight') = BagCardinality(inflight) + 1)]_vars
  /\ [][InFlightCount("function-definition", inflight')
          > InFlightCount("function-definition", inflight) =>
            \/ \E l \in languages : SetLanguage(l)
            \/ \E r \in BagToSet(inflight) : StartSessionSettle(r, "ok")]_vars

\* The language was changed to python and the request for the skeleton of
\* the session's question in python is in flight.
C18_Witness ==
  /\ question # NoQuestion /\ language = "python"
  /\ Request("function-definition", question, "python") \in InFlight("function-definition")
  /\ codeInput = LoadingText

\* C19: every settlement of a run-code request, success, non-2xx or
\* rejection, replaces runOutput, by the returned output on success and by a
\* text starting with 'Error: ' on failure, and sets runLoading back to
\* false; runLoading is true exactly while a run-code request is in flight.
C19_RunCodeAlwaysSettles ==
  /\ [][\A r \in BagToSet(inflight), o \in Outcomes, body \in RunBodies :
          RunCodeSettle(r, o, body) =>
            /\ ~runLoading'
            /\ o = "ok" =>
                 runOutput' = (IF body.output = Undefined THEN <<>> ELSE body.output)
            /\ o # "ok" =>
                 (Len(runOutput') > 1 /\ SubSeq(runOutput', 1, 1) = ErrorPrefix)]_vars
  /\ [](runLoading = (InFlight("run-code") # {}))

\* A run whose request was rejected shows its error line and is not loading.
C19_Witness ==
  /\ question # NoQuestion /\ activeTab = "Code"
  /\ runOutput = ErrorPrefix \o NetworkMessage
  /\ ~runLoading /\ InFlight("run-code") = {}

\* The requests sent in a step.
NewRequests ==
  {r \in BagToSet(inflight') : ~r.stale /\ CopiesIn(r, inflight') > CopiesIn(r, inflight)}

\* C20: every request sent while a token is stored carries the Authorization
\* header and every request sent while none is stored omits it, whatever the
\* endpoint.
C20_AuthHeaderWheneverToken ==
  [][\A r \in NewRequests : r.auth = token']_vars

\* The typed inputs and declared complexities of the three stages.
stageInputs == <<clarifyInput, bruteForceInput, optimizeInput, complexityVars>>

\* C21: sending a stage's feedback request and applying its settlement, on
\* success or on failure, leave the typed input and the declared complexities
\* of every stage unchanged, and leave the feedback text, shown flag and
\* loading flag of the two other stages unchanged.
C21_StageCallFrame ==
  /\ [][(\/ handleGetClarifyFeedback
         \/ \E r \in BagToSet(inflight), o \in Outcomes, t \in FeedbackTexts :
              ClarifySettle(r, o, t)) =>
          UNCHANGED <<stageInputs, bruteForceResponse, showBruteForceFeedback,
                      bruteForceLoading, optimizeResponse, showOptimizeFeedback,
                      optimizeLoading>>]_vars
  /\ [][(\/ handleGetBruteForceFeedback
         \/ \E r \in BagToSet(inflight), o \in Outcomes, t \in FeedbackTexts :
              BruteForceSettle(r, o, t)) =>
          UNCHANGED <<stageInputs, clarifyResponse, showClarifyFeedback, clarifyLoading,
                      optimizeResponse, showOptimizeFeedback, optimizeLoading>>]_vars
  /\ [][(\/ handleGetOptimizeFeedback
         \/ \E r \in BagToSet(inflight), o \in Outcomes, t \in FeedbackTexts :
              OptimizeSettle(r, o, t)) =>
          UNCHANGED <<stageInputs, clarifyResponse, showClarifyFeedback, clarifyLoading,
                      bruteForceResponse, showBruteForceFeedback,
                      bruteForceLoading>>]_vars

\* A clarification was typed and sent, its request failed with a non-2xx
\* status, and the typed text is still there.
C21_Witness ==
  /\ clarifyInput = <<"a">>
  /\ showClarifyFeedback /\ clarifyResponse = Undefined /\ ~clarifyLoading
  /\ InFlight("clarify") = {}

\* C22: exactly one of the six stages is active in every reachable state,
\* and wherever the stage tabs of a session are rendered every stage can be
\* selected and becomes the active stage, whatever the current stage, the
\* timer state and the presence of a Review are.
C22_AnyStageSelectable ==
  /\ [](activeTab \in Tabs /\ Cardinality(Tabs) = 6)
  /\ []((mounted /\ events < MaxEvents /\ SessionView) =>
          \A s \in Tabs \ {activeTab} : ENABLED SetActiveTab(s))
  /\ [][\A s \in Tabs : SetActiveTab(s) => activeTab' = s]_vars

\* The Review stage was selected in a session that has no Review and whose
\* timer was never started.
C22_Witness ==
  /\ question # NoQuestion /\ isLoggedIn
  /\ activeTab = "Review" /\ review = Null
  /\ ~timerActive /\ ~timeout /\ timer = FullBudget

\* C23: at most one tick is pending at any time, under every interleaving
\* of begin-interview, ticks, review settlements and restart(): a tick is
\* scheduled only when none is pending, and none is pending while the timer
\* is inactive or expired.
C23_AtMostOnePendingTick ==
  /\ [](tickPending \in {0, 1})
  /\ [](tickPending = 1 => (timerActive /\ ~timeout /\ timer > 0))
  /\ [][tickPending' > tickPending => tickPending = 0]_vars
  /\ [][Tick => tickPending = 1]_vars

\* A timer that had ticked was stopped by a review settlement and its
\* pending tick was cleared.
C23_Witness ==
  /\ question # NoQuestion /\ activeTab = "Review"
  /\ ~timerActive /\ ~timeout /\ tickPending = 0
  /\ 0 < timer /\ timer < FullBudget

C25_QuestionToClarifyStartsTimer ==
  /\ [][(activeTab = "Question" /\ activeTab' = "Clarify") => timerActive']_vars
  /\ [][\A s \in Tabs :
          (SetActiveTab(s) /\ ~(activeTab = "Question" /\ s = "Clarify")) =>
            UNCHANGED timerVars]_vars

\* The requests whose body carries selectedQuestionId as question_id.
SessionKinds == {"clarify", "brute-force", "optimize", "run-code", "code-review"}

\* C26: whenever a Question is assigned, the question_id sent in a
\* stage-feedback, run-code or final-review request is the id of that
\* Question, also when two questions were selected before the first
\* start-session response settled and the responses settle in any order.
C26_RequestsCarryAssignedQuestion ==
  [][\A r \in NewRequests :
       (r.kind \in SessionKinds /\ question # NoQuestion) => r.qid = question]_vars

\* C27: in every reachable state, also after a logout and after a later
\* login, the timer is active only while a Question is assigned, and no tick
\* decrements it while none is.
C27_TimerActiveOnlyInSession ==
  /\ [](timerActive => question # NoQuestion)
  /\ [][Tick => question # NoQuestion]_vars

\* The skeletons the service can return.
Skeletons == {Skeleton(q, l) : q \in QuestionIds, l \in languages}

\* C28: once every function-definition request has settled, a code text that
\* is a returned skeleton (the user types none of these, so nothing was
\* edited since) is the skeleton of the assigned Question in the selected
\* language, also when the language was changed while an earlier request was
\* in flight and the responses settled out of order.
C28_SkeletonMatchesSelection ==
  (/\ question # NoQuestion
   /\ InFlight("function-definition") = {}
   /\ codeInput \in Skeletons) => codeInput = Skeleton(question, language)

\* C29: the timer is never both active and expired: in every reachable
\* state expired implies not active, also after Begin Interview is pressed
\* again once the countdown has reached zero.
C29_NeverActiveAndExpired == timeout => ~timerActive

\* C30: every submit of the login form and of the signup form that has
\* completed leaves its loading flag false, on the path of the CAPTCHA not
\* loaded, of a blank answer, of an invalid CAPTCHA, of rejected credentials,
\* of any other failure and of success, so that a form is loading exactly
\* while its request is in flight; and the user becomes logged in through the
\* form only by a login request that returned a success status.
C30_FormsEndNotLoading ==
  /\ [][(LoginSubmit /\ UNCHANGED inflight) => ~loginModal'.loading]_vars
  /\ [][(SignupSubmit /\ UNCHANGED inflight) => ~signupModal'.loading]_vars
  /\ [][\A r \in BagToSet(inflight), o \in Outcomes, d \in LoginDetails :
          LoginSettle(r, o, d) => ~loginModal'.loading]_vars
  /\ [][\A r \in BagToSet(inflight), o \in Outcomes, d \in SignupDetails :
          SignupSettle(r, o, d) => ~signupModal'.loading]_vars
  /\ [](loginModal.loading = (InFlight("login") # {}))
  /\ [](signupModal.loading = (InFlight("register") # {}))
  /\ [][(~isLoggedIn /\ isLoggedIn') =>
          (token' /\ \E r \in InFlight("login"), d \in LoginDetails :
                       LoginSettle(r, "ok", d))]_vars

\* A login was refused for its CAPTCHA answer: the form shows the error, is
\* not loading, and a new CAPTCHA is being fetched.
C30_Witness ==
  /\ showLogin /\ ~isLoggedIn
  /\ loginModal.error = IncorrectCaptcha /\ loginModal.captchaAnswer = <<>>
  /\ ~loginModal.loading
  /\ InFlight("login-captcha") # {}

====
